---- MODULE Spec2Model ----
(***************************************************************************)
(* Model of the useMouseDelta React hook (src/index.ts).                   *)
(*                                                                         *)
(* The hook keeps eight useState cells and registers window listeners in   *)
(* a useEffect whose dependency list is [isMouseDown, lastY, deltaY,       *)
(* deltaX].  The listeners are closures: they read the values of           *)
(* isMouseDown, lastY, lastX, deltaY and deltaX of the render in which the *)
(* effect last ran.  `st' is the rendered state, `cap' the values the      *)
(* registered closures captured, `listeners' the window's listener table.  *)
(* In Spec every input event is followed by its re-render and effect run   *)
(* (one event per render); in AsyncSpec the re-render is a step of its own *)
(* and events may arrive before it.                                        *)
(***************************************************************************)
EXTENDS Integers, Sequences, FiniteSets, TLC

\* ---------------------------------------------------------------- bounds
MaxCoord == 1
\* touch contacts the host tracks at once
MaxTouches == 2
\* times the effect's cleanup function is called
MaxTeardowns == 2

Coord == 0 .. MaxCoord
\* the coordinates of the end-to-end scenario of the specification
ScenarioCoord == {0, 50}

Elements == {"card", "sheet"}
Buttons == {"left", "right"}
Modes == {"mouse", "touch", "both"}

\* null of a useState<boolean | null> / useState<string | null> cell
Null == "null"
\* a boolean stored in a boolean | null cell
Bool(b) == IF b THEN "true" ELSE "false"

MouseTypes == {"mousedown", "mousemove", "mouseup"}
TouchTypes == {"touchstart", "touchmove", "touchend"}

VARIABLES
  mode,        \* the hook's argument
  st,          \* the useState cells as of the last render
  cap,         \* what the registered closures captured
  listeners,   \* window listener table: records [type, handler]
  mounted,     \* the component using the hook is mounted
  touches,     \* host: active touch contacts, in TouchList order
  buttons,     \* host: mouse buttons currently held
  lastEv,      \* history: summary of the last input event dispatched
  handled,     \* history: a listener of the tracker ran for lastEv
  scen,        \* progress of the end-to-end scenario from a fresh tracker
  sync,        \* the host lets each event's re-render run before the next event
  teardowns,   \* history: calls of the effect's cleanup since the unmount
  ref,         \* the state of a tracker whose handlers read the current state
  ev           \* ExtractSpec: the event whose coordinates are extracted

vars == <<mode, st, cap, listeners, mounted, touches, buttons,
          lastEv, handled, scen, sync, teardowns, ref, ev>>

\* ---------------------------------------------------------------- events
MouseEvent(type, x, y, target) ==
  [type |-> type, x |-> x, y |-> y, touches |-> <<>>,
   changedTouches |-> <<>>, target |-> target]

TouchEvent(type, active, changed, target) ==
  [type |-> type, x |-> 0, y |-> 0, touches |-> active,
   changedTouches |-> changed, target |-> target]

Touch(x, y) == [clientX |-> x, clientY |-> y]

\* e.type.includes('touch')
IsTouch(e) == e.type \in TouchTypes

FirstTouch(e) ==
  IF Len(e.touches) > 0 THEN e.touches[1] ELSE e.changedTouches[1]

\* mutant: the Y of a touch read from the X field
getY_ReadsX(e) == IF IsTouch(e) THEN FirstTouch(e).clientX ELSE e.y

getY(e) == IF IsTouch(e) THEN FirstTouch(e).clientY ELSE e.y

\* mutant: the changed touches preferred to the active ones
getX_ChangedFirst(e) ==
  IF IsTouch(e)
  THEN (IF Len(e.changedTouches) > 0 THEN e.changedTouches[1]
        ELSE e.touches[1]).clientX
  ELSE e.x

getX(e) == IF IsTouch(e) THEN FirstTouch(e).clientX ELSE e.x

\* ---------------------------------------------------------------- hook
InitialState ==
  [lastY |-> 0, lastX |-> 0, deltaY |-> 0, deltaX |-> 0,
   goingDown |-> Null, goingRight |-> Null,
   isMouseDown |-> FALSE, touchedElement |-> Null]

\* mutant: the touch listeners are registered whatever the mode
isMobile_Always(m) == TRUE

isMobile(m) == m = "touch" \/ m = "both"

isDesktop(m) == m = "mouse" \/ m = "both"

\* the values a render's handlers close over
Capture(s) ==
  [isMouseDown |-> s.isMouseDown, lastY |-> s.lastY, lastX |-> s.lastX,
   deltaY |-> s.deltaY, deltaX |-> s.deltaX]

\* mutant: a dependency list that leaves out isMouseDown
Deps_NoIsMouseDown(s) == <<s.lastY, s.deltaY, s.deltaX>>

\* the useEffect dependency list
Deps(s) == <<s.isMouseDown, s.lastY, s.deltaY, s.deltaX>>

\* mutant: a press that keeps the element of the earlier press
onMouseDown_KeepsElement(s, c, e) ==
  [s EXCEPT !.isMouseDown = TRUE,
            !.lastY = getY(e),
            !.lastX = getX(e),
            !.touchedElement =
               IF s.touchedElement = Null THEN e.target ELSE s.touchedElement]

onMouseDown(s, c, e) ==
  [s EXCEPT !.isMouseDown = TRUE,
            !.lastY = getY(e),
            !.lastX = getX(e),
            !.touchedElement = e.target]

\* mutant: the move handler without its isMouseDown guard
onMouseMove_NoGuard(s, c, e) ==
  LET dY == getY(e) - c.lastY
      dX == getX(e) - c.lastX
  IN [s EXCEPT !.goingDown = Bool(dY > c.deltaY),
               !.goingRight = Bool(dX > c.deltaX),
               !.deltaY = dY,
               !.deltaX = dX]

\* mutant: a move that measures from the previous sample and moves the origin
onMouseMove_MovesOrigin(s, c, e) ==
  IF c.isMouseDown
  THEN LET dY == getY(e) - c.lastY
           dX == getX(e) - c.lastX
       IN [s EXCEPT !.goingDown = Bool(dY > c.deltaY),
                    !.goingRight = Bool(dX > c.deltaX),
                    !.deltaY = dY,
                    !.deltaX = dX,
                    !.lastY = getY(e),
                    !.lastX = getX(e)]
  ELSE s

\* mutant: a move that forgets setGoingRight
onMouseMove_NoTrendRight(s, c, e) ==
  IF c.isMouseDown
  THEN LET dY == getY(e) - c.lastY
           dX == getX(e) - c.lastX
       IN [s EXCEPT !.goingDown = Bool(dY > c.deltaY),
                    !.deltaY = dY,
                    !.deltaX = dX]
  ELSE s

onMouseMove(s, c, e) ==
  IF c.isMouseDown
  THEN LET dY == getY(e) - c.lastY
           dX == getX(e) - c.lastX
       IN [s EXCEPT !.goingDown = Bool(dY > c.deltaY),
                    !.goingRight = Bool(dX > c.deltaX),
                    !.deltaY = dY,
                    !.deltaX = dX]
  ELSE s

\* mutant: a release that forgets to reset deltaY
onMouseUp_KeepsDeltaY(s, c, e) ==
  [s EXCEPT !.isMouseDown = FALSE,
            !.deltaX = 0,
            !.goingDown = Null,
            !.goingRight = Null]

\* mutant: a release that clears touchedElement
onMouseUp_ClearsElement(s, c, e) ==
  [s EXCEPT !.isMouseDown = FALSE,
            !.deltaY = 0,
            !.deltaX = 0,
            !.goingDown = Null,
            !.goingRight = Null,
            !.touchedElement = Null]

onMouseUp(s, c, e) ==
  [s EXCEPT !.isMouseDown = FALSE,
            !.deltaY = 0,
            !.deltaX = 0,
            !.goingDown = Null,
            !.goingRight = Null]

MouseListeners ==
  {[type |-> "mousedown", handler |-> "onMouseDown"],
   [type |-> "mouseup", handler |-> "onMouseUp"],
   [type |-> "mousemove", handler |-> "onMouseMove"]}

TouchListeners ==
  {[type |-> "touchstart", handler |-> "onMouseDown"],
   [type |-> "touchend", handler |-> "onMouseUp"],
   [type |-> "touchmove", handler |-> "onMouseMove"]}

\* the effect body: window.addEventListener calls
Subscribe(m, L) ==
  L \cup (IF isDesktop(m) THEN MouseListeners ELSE {})
    \cup (IF isMobile(m) THEN TouchListeners ELSE {})

\* mutant: a cleanup that toggles the subscription instead of removing it
Cleanup_Toggles(m, L) ==
  LET mine == (IF isDesktop(m) THEN MouseListeners ELSE {})
                \cup (IF isMobile(m) THEN TouchListeners ELSE {})
  IN (L \ mine) \cup (mine \ L)

\* mutant: a cleanup that forgets the touch listeners
Cleanup_MouseOnly(m, L) ==
  L \ (IF isDesktop(m) THEN MouseListeners ELSE {})

\* the effect's cleanup: window.removeEventListener calls
Cleanup(m, L) ==
  (L \ (IF isDesktop(m) THEN MouseListeners ELSE {}))
     \ (IF isMobile(m) THEN TouchListeners ELSE {})

\* re-render with state s: the effect re-runs when a dependency changed
useEffect(m, s, c, L) ==
  IF Deps(s) # Deps(c)
  THEN [cap |-> Capture(s), listeners |-> Subscribe(m, Cleanup(m, L))]
  ELSE [cap |-> c, listeners |-> L]

\* the handlers the window runs for event e
HandlersFor(L, e) == {l.handler : l \in {k \in L : k.type = e.type}}

RunHandlers(L, s, c, e) ==
  LET hs == HandlersFor(L, e)
  IN IF "onMouseDown" \in hs THEN onMouseDown(s, c, e)
     ELSE IF "onMouseMove" \in hs THEN onMouseMove(s, c, e)
     ELSE IF "onMouseUp" \in hs THEN onMouseUp(s, c, e)
     ELSE s

\* the snapshot the hook returns
Snapshot(s) ==
  [deltaY |-> s.deltaY, deltaX |-> s.deltaX, isMouseDown |-> s.isMouseDown,
   touchedElement |-> s.touchedElement, goingDown |-> s.goingDown,
   goingRight |-> s.goingRight]

IsPress(e) == e.type \in {"mousedown", "touchstart"}
IsMove(e) == e.type \in {"mousemove", "touchmove"}
IsRelease(e) == e.type \in {"mouseup", "touchend"}

\* what the history keeps of an event: its type and what the handler that ran
\* read from it (the coordinates for a press and for a move while pressed,
\* the target for a press; 0 and Null for what no handler read)
Summary(e, ran, c) ==
  LET readsXY == ran /\ (IsPress(e) \/ (IsMove(e) /\ c.isMouseDown))
  IN [type |-> e.type,
      x |-> IF readsXY THEN getX(e) ELSE 0,
      y |-> IF readsXY THEN getY(e) ELSE 0,
      target |-> IF ran /\ IsPress(e) THEN e.target ELSE Null]

NoEvent == [type |-> "none", x |-> 0, y |-> 0, target |-> Null]

\* ---------------------------------------------------------------- scenario
\* touch-start (50,50) on "card"; touch-move to (50,0); touch-end, told from
\* the raw event: the one contact of the gesture is the changed touch
ScenarioStep(n, e) ==
  IF e.type \notin TouchTypes \/ Len(e.changedTouches) # 1
  THEN 4
  ELSE LET t == e.changedTouches[1]
       IN IF n = 0 /\ e.type = "touchstart" /\ Len(e.touches) = 1
             /\ t.clientX = 50 /\ t.clientY = 50 /\ e.target = "card"
          THEN 1
          ELSE IF n = 1 /\ e.type = "touchmove" /\ Len(e.touches) = 1
                  /\ t.clientX = 50 /\ t.clientY = 0
          THEN 2
          ELSE IF n = 2 /\ e.type = "touchend" /\ Len(e.touches) = 0
          THEN 3
          ELSE 4

\* ---------------------------------------------------------------- system
Init ==
  /\ mode \in Modes
  /\ st = InitialState
  /\ cap = Capture(InitialState)
  /\ listeners = Subscribe(mode, {})
  /\ mounted = TRUE
  /\ touches = <<>>
  /\ buttons = {}
  /\ lastEv = NoEvent
  /\ handled = FALSE
  /\ scen = 0
  /\ sync = TRUE
  /\ teardowns = 0
  /\ ref = InitialState
  /\ ev = NoEvent

\* the window dispatches e; the tracker's listener (if any) runs, then
\* (when the host is synchronous) the component re-renders and the effect runs
Dispatch(e) ==
  LET ran == HandlersFor(listeners, e) # {}
      s1 == RunHandlers(listeners, st, cap, e)
      eff == IF sync THEN useEffect(mode, s1, cap, listeners)
             ELSE [cap |-> cap, listeners |-> listeners]
  IN /\ st' = s1
     /\ cap' = eff.cap
     /\ listeners' = eff.listeners
     /\ lastEv' = Summary(e, ran, cap)
     /\ handled' = ran
     /\ scen' = ScenarioStep(scen, e)
     /\ ref' = RunHandlers(listeners, ref, Capture(ref), e)
     /\ UNCHANGED <<mode, mounted, sync, teardowns, ev>>

\* the pending re-render: the effect re-runs with the state the handlers set
Render ==
  LET eff == useEffect(mode, st, cap, listeners)
  IN /\ ~sync
     /\ mounted
     /\ Deps(st) # Deps(cap)
     /\ cap' = eff.cap
     /\ listeners' = eff.listeners
     /\ UNCHANGED <<mode, st, mounted, touches, buttons, lastEv, handled,
                    scen, sync, teardowns, ref, ev>>

\* the target of a move or release event, which no handler reads
AnyTarget == CHOOSE t \in Elements : TRUE

MouseDown(C) ==
  \E b \in Buttons \ buttons, x \in C, y \in C, t \in Elements :
    /\ buttons' = buttons \cup {b}
    /\ UNCHANGED touches
    /\ Dispatch(MouseEvent("mousedown", x, y, t))

MouseMove(C) ==
  \E x \in C, y \in C :
    /\ UNCHANGED <<touches, buttons>>
    /\ Dispatch(MouseEvent("mousemove", x, y, AnyTarget))

MouseUp(C) ==
  \E b \in buttons, x \in C, y \in C :
    /\ buttons' = buttons \ {b}
    /\ UNCHANGED touches
    /\ Dispatch(MouseEvent("mouseup", x, y, AnyTarget))

RemoveAt(s, i) == SubSeq(s, 1, i - 1) \o SubSeq(s, i + 1, Len(s))

TouchStart(C) ==
  \E x \in C, y \in C, t \in Elements :
    LET tch == Touch(x, y)
        now == Append(touches, tch)
    IN /\ Len(touches) < MaxTouches
       /\ touches' = now
       /\ UNCHANGED buttons
       /\ Dispatch(TouchEvent("touchstart", now, <<tch>>, t))

TouchMove(C) ==
  \E i \in 1 .. Len(touches), x \in C, y \in C :
    LET tch == Touch(x, y)
        now == [touches EXCEPT ![i] = tch]
    IN /\ tch # touches[i]
       /\ touches' = now
       /\ UNCHANGED buttons
       /\ Dispatch(TouchEvent("touchmove", now, <<tch>>, AnyTarget))

TouchEnd ==
  \E i \in 1 .. Len(touches) :
    LET now == RemoveAt(touches, i)
    IN /\ touches' = now
       /\ UNCHANGED buttons
       /\ Dispatch(TouchEvent("touchend", now, <<touches[i]>>, AnyTarget))

\* the component unmounts: React runs the last effect's cleanup
Unmount ==
  /\ mounted
  /\ mounted' = FALSE
  /\ listeners' = Cleanup(mode, listeners)
  /\ teardowns' = 1
  /\ UNCHANGED <<mode, st, cap, touches, buttons, lastEv, handled, scen,
                 sync, ref, ev>>

\* the cleanup function of the last effect is called again
TeardownAgain ==
  /\ ~mounted
  /\ teardowns < MaxTeardowns
  /\ teardowns' = teardowns + 1
  /\ listeners' = Cleanup(mode, listeners)
  /\ UNCHANGED <<mode, st, cap, mounted, touches, buttons, lastEv, handled,
                 scen, sync, ref, ev>>

Next ==
  \/ MouseDown(Coord)
  \/ MouseMove(Coord)
  \/ MouseUp(Coord)
  \/ TouchStart(Coord)
  \/ TouchMove(Coord)
  \/ TouchEnd

Spec == Init /\ [][Next]_vars

ScenarioNext ==
  \/ MouseDown(ScenarioCoord)
  \/ MouseMove(ScenarioCoord)
  \/ MouseUp(ScenarioCoord)
  \/ TouchStart(ScenarioCoord)
  \/ TouchMove(ScenarioCoord)
  \/ TouchEnd

ScenarioSpec == Init /\ [][ScenarioNext]_vars

\* gestures of one pointer: at most one contact or button is down at a time
OnePointer == Len(touches') + Cardinality(buttons') <= 1

\* the tracker's life including its teardown, under one-pointer gestures
LifecycleNext == (Next /\ OnePointer) \/ Unmount \/ TeardownAgain

LifecycleSpec == Init /\ [][LifecycleNext]_vars

\* events may arrive before the re-render of an earlier event
AsyncInit ==
  /\ mode \in Modes
  /\ st = InitialState
  /\ cap = Capture(InitialState)
  /\ listeners = Subscribe(mode, {})
  /\ mounted = TRUE
  /\ touches = <<>>
  /\ buttons = {}
  /\ lastEv = NoEvent
  /\ handled = FALSE
  /\ scen = 0
  /\ sync = FALSE
  /\ teardowns = 0
  /\ ref = InitialState
  /\ ev = NoEvent

AsyncNext == (Next /\ OnePointer) \/ Render

AsyncSpec == AsyncInit /\ [][AsyncNext]_vars

\* ---------------------------------------------------------------- extraction
\* changed contacts one touch event reports
MaxChanged == 2

Touches == {Touch(x, y) : x \in Coord, y \in Coord}

TouchLists(n) == UNION {[1 .. k -> Touches] : k \in 0 .. n}

\* the events getX and getY accept: a TouchEvent carries at least one changed
\* contact, its list of active contacts may be empty
RawEvents ==
  {MouseEvent(ty, x, y, AnyTarget) : ty \in MouseTypes, x \in Coord, y \in Coord}
  \cup {TouchEvent(ty, a, c, AnyTarget) :
          ty \in TouchTypes, a \in TouchLists(MaxTouches),
          c \in TouchLists(MaxChanged) \ {<<>>}}

ExtractInit ==
  /\ mode = "both"
  /\ st = InitialState
  /\ cap = Capture(InitialState)
  /\ listeners = Subscribe(mode, {})
  /\ mounted = TRUE
  /\ touches = <<>>
  /\ buttons = {}
  /\ lastEv = NoEvent
  /\ handled = FALSE
  /\ scen = 0
  /\ sync = TRUE
  /\ teardowns = 0
  /\ ref = InitialState
  /\ ev \in RawEvents

\* the host hands the next event to a handler
Receive ==
  /\ lastEv # NoEvent
  /\ ev' \in RawEvents
  /\ lastEv' = NoEvent
  /\ UNCHANGED <<mode, st, cap, listeners, mounted, touches, buttons, handled,
                 scen, sync, teardowns, ref>>

\* the handler calls getX(e) and getY(e)
Extract ==
  /\ lastEv = NoEvent
  /\ lastEv' = [type |-> ev.type, x |-> getX(ev), y |-> getY(ev),
                target |-> Null]
  /\ UNCHANGED <<mode, st, cap, listeners, mounted, touches, buttons, handled,
                 scen, sync, teardowns, ref, ev>>

ExtractNext == Receive \/ Extract

ExtractSpec == ExtractInit /\ [][ExtractNext]_vars

\* ---------------------------------------------------------------- claims
Rest(s) ==
  /\ s.deltaX = 0
  /\ s.deltaY = 0
  /\ s.goingDown = Null
  /\ s.goingRight = Null

\* C1: right after a release event handled by the tracker, whatever presses
\* and moves came before, deltaX = 0, deltaY = 0, isMouseDown = false and
\* goingDown and goingRight are null.
C1_AfterRelease ==
  (handled /\ IsRelease(lastEv)) => (~st.isMouseDown /\ Rest(st))

\* a release was handled after a press away from (0,0)
C1_Witness ==
  /\ handled /\ IsRelease(lastEv)
  /\ st.touchedElement # Null /\ st.lastX # 0 /\ st.lastY # 0

\* C2: in every reachable state, isMouseDown = false implies deltaX = 0,
\* deltaY = 0, goingDown = null and goingRight = null.
C2_RestWhenNotPressed == ~st.isMouseDown => Rest(st)

\* a touch move was handled while not pressed and a contact is still down
C2_Witness ==
  /\ ~st.isMouseDown /\ handled /\ lastEv.type = "touchmove"
  /\ Len(touches) > 0

\* C3 (as claimed): right after every handled press, deltaX = 0, deltaY = 0,
\* isMouseDown = true, the trend flags are null and touchedElement is the
\* className of the press event's target.
C3_AfterPress ==
  (handled /\ IsPress(lastEv)) =>
    (st.isMouseDown /\ Rest(st) /\ st.touchedElement = lastEv.target)

\* C4 (as claimed): right after every move handled while pressed, the delta
\* is the move's coordinates minus the coordinates stored by the most recent
\* press.
C4_DeltaFromOrigin ==
  (handled /\ IsMove(lastEv) /\ st.isMouseDown) =>
    (st.deltaX = lastEv.x - st.lastX /\ st.deltaY = lastEv.y - st.lastY)

\* C5 (as claimed): a move handled while pressed sets goingDown to
\* (new deltaY > deltaY stored before the move) and goingRight likewise, and
\* the stored value is 0 for the first move after a press.
C5_Trend ==
  [][(handled' /\ IsMove(lastEv') /\ st.isMouseDown) =>
       /\ st'.goingDown = Bool(st'.deltaY > st.deltaY)
       /\ st'.goingRight = Bool(st'.deltaX > st.deltaX)
       /\ (handled /\ IsPress(lastEv)) =>
            /\ st'.goingDown = Bool(st'.deltaY > 0)
            /\ st'.goingRight = Bool(st'.deltaX > 0)]_vars

ScenarioSnapshot(dY, down, pressed, goDown, goRight) ==
  [deltaY |-> dY, deltaX |-> 0, isMouseDown |-> pressed,
   touchedElement |-> "card", goingDown |-> goDown, goingRight |-> goRight]

\* C6 (as claimed): mode 'both', touch-start (50,50) on "card", touch-move
\* to (50,0), touch-end: the move's snapshot has goingDown = true.
C6_ScenarioAsClaimed ==
  mode = "both" =>
    /\ scen = 1 => Snapshot(st) = ScenarioSnapshot(0, 0, TRUE, Null, Null)
    /\ scen = 2 =>
         Snapshot(st) = ScenarioSnapshot(-50, 0, TRUE, "true", "false")
    /\ scen = 3 => Snapshot(st) = ScenarioSnapshot(0, 0, FALSE, Null, Null)

\* C6 (amended): the same scenario, where the move to (50,0) yields
\* {deltaX:0, deltaY:-50, isMouseDown:true, touchedElement:"card",
\* goingDown:false, goingRight:false}.
C6_Scenario ==
  mode = "both" =>
    /\ scen = 1 => Snapshot(st) = ScenarioSnapshot(0, 0, TRUE, Null, Null)
    /\ scen = 2 =>
         Snapshot(st) = ScenarioSnapshot(-50, 0, TRUE, "false", "false")
    /\ scen = 3 => Snapshot(st) = ScenarioSnapshot(0, 0, FALSE, Null, Null)

\* the scenario ran to its touch-end
C6_Witness == mode = "both" /\ scen = 3

\* C7 (as claimed): on a move handled while pressed, goingDown is true
\* exactly when the move's Y is greater than the Y of the previous sample
\* (press or move) and false exactly when it is smaller; goingRight likewise
\* for X.
C7_TrendIsDirection ==
  [][(/\ handled' /\ IsMove(lastEv') /\ st.isMouseDown
      /\ handled /\ (IsPress(lastEv) \/ IsMove(lastEv))) =>
       /\ st'.goingDown = "true" <=> lastEv'.y > lastEv.y
       /\ st'.goingDown = "false" <=> lastEv'.y < lastEv.y
       /\ st'.goingRight = "true" <=> lastEv'.x > lastEv.x
       /\ st'.goingRight = "false" <=> lastEv'.x < lastEv.x]_vars

\* C8: a move event delivered while isMouseDown is false changes no field
\* of the state (deltas, trend flags, isMouseDown, touchedElement, origin).
C8_StrayMoveNoChange ==
  [][(handled' /\ IsMove(lastEv') /\ ~st.isMouseDown) => st' = st]_vars

\* a mouse move was handled after a release, with the earlier press's
\* element and origin still stored
C8_Witness ==
  /\ handled /\ lastEv.type = "mousemove" /\ ~st.isMouseDown
  /\ st.touchedElement # Null /\ st.lastX # 0

\* C9: with mode 'mouse' no touch event changes the state, with mode 'touch'
\* no mouse event does, and with mode 'both' events of either class drive the
\* one state: every press sets isMouseDown, every release clears it, and every
\* move while pressed sets deltaY from the stored origin.
C9_ModeFilter ==
  [][/\ (mode = "mouse" /\ lastEv'.type \in TouchTypes) =>
          (st' = st /\ ~handled')
     /\ (mode = "touch" /\ lastEv'.type \in MouseTypes) =>
          (st' = st /\ ~handled')
     /\ (mode = "both" /\ IsPress(lastEv')) => (handled' /\ st'.isMouseDown)
     /\ (mode = "both" /\ IsRelease(lastEv')) =>
          (handled' /\ ~st'.isMouseDown)
     /\ (mode = "both" /\ IsMove(lastEv') /\ st.isMouseDown) =>
          (handled' /\ st'.deltaY = lastEv'.y - st.lastY)]_vars

\* mode 'mouse': a touch move arrived while the mouse is pressed and moved
C9_Witness ==
  /\ mode = "mouse" /\ lastEv.type = "touchmove" /\ ~handled
  /\ st.isMouseDown /\ st.deltaY # 0

\* the presses delivered to the tracker whose release has not been delivered
Outstanding ==
  \/ isDesktop(mode) /\ buttons # {}
  \/ isMobile(mode) /\ Len(touches) > 0

\* C10 (as claimed): isMouseDown is true if and only if some press has been
\* delivered whose matching release has not yet been delivered.
C10_PressedIffOutstanding == st.isMouseDown <=> Outstanding

\* C11: calling the effect's cleanup again after the teardown, when no
\* listener of the tracker is registered any more, changes no state field and
\* leaves the listener table as the single teardown left it (empty).
C11_TeardownIdempotent ==
  [][(~mounted /\ teardowns' = teardowns + 1) =>
       /\ listeners = {}
       /\ listeners' = listeners
       /\ st' = st
       /\ cap' = cap]_vars

\* the cleanup ran a second time on a tracker torn down in mid-gesture
C11_Witness ==
  /\ teardowns = MaxTeardowns /\ st.isMouseDown /\ st.deltaY # 0
  /\ listeners = {}

\* C12: a release leaves touchedElement, lastX and lastY as they were, and
\* neither a release nor a move ever changes touchedElement: it keeps the
\* className of the last press until the next press.
C12_ReleaseKeepsElementAndOrigin ==
  [][/\ IsRelease(lastEv') =>
          /\ st'.touchedElement = st.touchedElement
          /\ st'.lastX = st.lastX
          /\ st'.lastY = st.lastY
     /\ IsMove(lastEv') => st'.touchedElement = st.touchedElement]_vars

\* a touch end was handled and the element and origin of the press survive
C12_Witness ==
  /\ handled /\ lastEv.type = "touchend" /\ ~st.isMouseDown
  /\ st.touchedElement = "sheet" /\ st.lastY # 0

\* C13: lastX and lastY are written by press events only, once per press
\* event (to the coordinates the press handler extracted); a move or release
\* leaves them alone, and a move leaves isMouseDown and touchedElement alone.
C13_OriginWrittenByPressOnly ==
  [][/\ ~IsPress(lastEv') => (st'.lastX = st.lastX /\ st'.lastY = st.lastY)
     /\ IsMove(lastEv') =>
          /\ st'.isMouseDown = st.isMouseDown
          /\ st'.touchedElement = st.touchedElement
     /\ (handled' /\ IsPress(lastEv')) =>
          (st'.lastX = lastEv'.x /\ st'.lastY = lastEv'.y)]_vars

\* a move away from the origin was handled while pressed
C13_Witness ==
  /\ handled /\ IsMove(lastEv) /\ st.isMouseDown
  /\ lastEv.x # st.lastX /\ lastEv.y # st.lastY /\ st.deltaY # 0

\* C14 (as claimed): whenever goingDown or goingRight is null, isMouseDown
\* is false.
C14_UnsetOnlyWhenReleased ==
  (st.goingDown = Null \/ st.goingRight = Null) => ~st.isMouseDown

\* C14 (amended): the trend flags are null together, and whenever they are
\* null either isMouseDown is false, or isMouseDown is true with deltaX = 0
\* and deltaY = 0 (a press that no move has followed yet).
C14_UnsetWhenReleasedOrJustPressed ==
  (st.goingDown = Null \/ st.goingRight = Null) =>
    /\ st.goingDown = Null /\ st.goingRight = Null
    /\ st.isMouseDown => (st.deltaX = 0 /\ st.deltaY = 0)

\* a press was handled and the flags are still null while pressed
C14_Witness ==
  /\ handled /\ IsPress(lastEv) /\ st.isMouseDown
  /\ st.goingDown = Null /\ st.goingRight = Null

\* C15 (as claimed): with one event per re-render the hook returns the same
\* snapshot as a tracker whose handlers read the current state.
C15_SameAsByReference == Snapshot(st) = Snapshot(ref)

\* C16 (as claimed): however events interleave with the re-render, no
\* reachable state has isMouseDown = false with a non-zero delta or a set
\* trend flag.
C16_RestUnderInterleaving ==
  st.isMouseDown = FALSE =>
    (st.deltaX = 0 /\ st.deltaY = 0
     /\ st.goingDown = Null /\ st.goingRight = Null)

\* C17 (as claimed): a touch-start while another contact is already down
\* leaves lastX, lastY, touchedElement, deltaX and deltaY as they were.
C17_SecondaryTouchIgnored ==
  [][(lastEv'.type = "touchstart" /\ Len(touches) > 0 /\ st.isMouseDown) =>
       /\ st'.lastX = st.lastX
       /\ st'.lastY = st.lastY
       /\ st'.touchedElement = st.touchedElement
       /\ st'.deltaX = st.deltaX
       /\ st'.deltaY = st.deltaY]_vars

\* C18: for a touch event getX and getY return clientX and clientY of
\* touches[0] when touches is not empty and of changedTouches[0] otherwise;
\* for a mouse event they return the event's x and y.
C18_Extraction ==
  lastEv.type = ev.type =>
    IF ev.type \in TouchTypes
    THEN IF Len(ev.touches) > 0
         THEN /\ lastEv.x = ev.touches[1].clientX
              /\ lastEv.y = ev.touches[1].clientY
         ELSE /\ lastEv.x = ev.changedTouches[1].clientX
              /\ lastEv.y = ev.changedTouches[1].clientY
    ELSE lastEv.x = ev.x /\ lastEv.y = ev.y

\* the coordinates of a touch end without active contacts were extracted,
\* from the first of two changed contacts that differ
C18_Witness ==
  /\ lastEv.type = "touchend" /\ ev.type = "touchend"
  /\ Len(ev.touches) = 0 /\ Len(ev.changedTouches) = 2
  /\ ev.changedTouches[1] # ev.changedTouches[2]
  /\ lastEv.x # lastEv.y

\* C19: once the tracker is torn down no listener of it is registered, and
\* no event dispatched afterwards runs a handler or changes a state field.
C19_NoMutationAfterTeardown ==
  [][/\ ~mounted' => listeners' = {}
     /\ (~mounted /\ teardowns' = teardowns) => (st' = st /\ ~handled')]_vars

\* mode 'both': a move arrived after the teardown of a tracker whose
\* closures had captured isMouseDown = true
C19_Witness ==
  /\ ~mounted /\ mode = "both" /\ IsMove(lastEv) /\ ~handled
  /\ st.isMouseDown /\ cap.isMouseDown

\* C20: the press that follows a release (or any state with isMouseDown
\* false) leaves a state, captured values and listeners that depend on the
\* mode and on that press alone, so the snapshots of the gesture it starts
\* do not depend on what came before.
C20_PressForgetsHistory ==
  [][(handled' /\ IsPress(lastEv') /\ ~st.isMouseDown) =>
       /\ st' = [InitialState EXCEPT !.isMouseDown = TRUE,
                                     !.lastX = lastEv'.x,
                                     !.lastY = lastEv'.y,
                                     !.touchedElement = lastEv'.target]
       /\ cap' = Capture(st')
       /\ listeners' = Subscribe(mode, {})]_vars

\* a release was handled that leaves the element and the origin of the
\* gesture it ended in the state the next press starts from
C20_Witness ==
  /\ handled /\ IsRelease(lastEv) /\ ~st.isMouseDown
  /\ st.touchedElement = "card" /\ st.lastX # 0 /\ cap.lastX = st.lastX

TypeOK ==
  /\ mode \in Modes
  /\ st.isMouseDown \in BOOLEAN
  /\ st.goingDown \in {Null, "true", "false"}
  /\ st.goingRight \in {Null, "true", "false"}
  /\ st.touchedElement \in Elements \cup {Null}
  /\ mounted \in BOOLEAN
  /\ buttons \subseteq Buttons
  /\ Len(touches) <= MaxTouches

====
